---- MODULE Spec2Model ----
(***************************************************************************)
(* bvl::value_t (include/badval.hpp): a tagged union over a number, an     *)
(* owned heap std::string and a pointer with a release function.           *)
(*                                                                         *)
(* The model holds a fixed set of places in which value_t objects are      *)
(* constructed and destroyed, the heap of std::string objects made by      *)
(* new(std::nothrow), and the calls the program owes to release functions. *)
(* The two assignment operators are modelled statement by statement: pc    *)
(* names the statement of the running operator= and no other operation is  *)
(* enabled until it has returned.                                          *)
(***************************************************************************)
EXTENDS Integers, Sequences, FiniteSets, TLC

\* ------------------------------------------------------------------ bounds
\* Number of named value_t objects a run may construct.
NSlots == 2
\* Number of std::string objects the heap can hold at a time; new(nothrow)
\* returns nullptr when it is full (and may do so at any time).
MaxAlloc == 3

\* ------------------------------------------------------------------ inputs
Nums == {0, 5}
Texts == {"hello", "test"}
NullPtr == "nullptr"
Ptrs == {NullPtr, "buf"}
NullFn == "nullptr"
Fns == {NullFn, "freeBuf"}
\* What a release function can be owed: a call for a pointer.
Dues == (Fns \ {NullFn}) \X Ptrs

\* The null std::string*; heap addresses are 1..MaxAlloc.
NullStr == 0
Addr == 1..MaxAlloc

\* Place 0 is the temporary value_t(rhs) of copy assignment, the others are
\* the objects the caller names.
Tmp == 0
Slot == 1..NSlots
Place == 0..NSlots

\* ------------------------------------------------------------------ type_t
number == "number"
string == "string"
pointer == "pointer"
type_t == {number, string, pointer}

\* The union: only the member the code wrote last is present.
NumberVal(n) == [type |-> number, num |-> n]
StringVal(a) == [type |-> string, str |-> a]
PointerVal(p, f) == [type |-> pointer, ptr |-> p, free |-> f]
\* Storage in which no value_t has been constructed.
NoObj == [type |-> "none"]

VARIABLES
  vals,       \* Place -> the object's type and union
  life,       \* Place -> "none" (not constructed), "live", "dead" (destroyed)
  heap,       \* Addr -> [st, txt]: the std::string objects of the free store
  owed,       \* <<free, ptr>> -> calls free(ptr) the program still owes
  faults,     \* releases of what was not there to release
  moved,      \* places that were the source of a move and hold nothing new since
  impossible, \* a default: branch of a switch on the type was reached
  pc,         \* the statement of the operator= in progress
  last        \* the operation that ran last, its outcome and its releases

vars == <<vals, life, heap, owed, faults, moved, impossible, pc, last>>

Idle == [at |-> "idle", dst |-> 0, src |-> 0]
Crashed == [at |-> "crashed", dst |-> 0, src |-> 0]

Op(op, d, s, out, res, rel) ==
  [op |-> op, dst |-> d, src |-> s, out |-> out, res |-> res, rel |-> rel]

\* ------------------------------------------------------------------ heap
NoString == [st |-> "free", txt |-> ""]

\* The address new(std::nothrow) returns when it succeeds.
Fresh(h) ==
  IF \E a \in Addr : h[a].st = "free"
  THEN CHOOSE a \in Addr : h[a].st = "free" /\ \A b \in Addr : h[b].st = "free" => a <= b
  ELSE NullStr

\* new(std::nothrow) std::string(t): every address it may return.
NewNothrow(h) == {NullStr, Fresh(h)}

Alloc(h, a, t) == [h EXCEPT ![a] = [st |-> "live", txt |-> t]]

\* delete p; delete nullptr does nothing, and deleting what is not a live
\* object is a double delete.
Delete(h, a) ==
  IF a = NullStr THEN [heap |-> h, fault |-> {}]
  ELSE IF h[a].st = "live" THEN [heap |-> [h EXCEPT ![a] = NoString], fault |-> {}]
  ELSE [heap |-> h, fault |-> {"double_delete"}]

\* free(p) as the caller's release function sees it: a call that is owed, or
\* a second release of the same referent.
Call(ow, f, p) ==
  IF ow[<<f, p>>] > 0
  THEN [owed |-> [ow EXCEPT ![<<f, p>>] = @ - 1], fault |-> {}]
  ELSE [owed |-> ow, fault |-> {"double_call"}]

\* *p for a std::string* p. Dereferencing nullptr or a deleted object is
\* undefined: the build may crash or read any text.
Deref(h, a) ==
  IF a # NullStr /\ h[a].st = "live"
  THEN {[out |-> "ok", txt |-> h[a].txt]}
  ELSE {[out |-> "crash", txt |-> ""]} \cup {[out |-> "ok", txt |-> t] : t \in Texts}

\* ------------------------------------------------------------------ accessors
AsNumber(v) ==
  IF v.type = number
  THEN {[out |-> "ok", res |-> v.num]}
  ELSE {[out |-> "runtime_error", res |-> 0]}

AsString(v, h) ==
  IF v.type = string
  THEN {[out |-> d.out, res |-> d.txt] : d \in Deref(h, v.str)}
  ELSE {[out |-> "runtime_error", res |-> ""]}

AsPointer(v) ==
  IF v.type = pointer
  THEN {[out |-> "ok", res |-> v.ptr]}
  ELSE {[out |-> "runtime_error", res |-> NullPtr]}

Type(v) == v.type

\* As<type>() forwards to the accessor of that type.
As(ty, v, h) ==
  CASE ty = number -> AsNumber(v)
    [] ty = string -> AsString(v, h)
    [] ty = pointer -> AsPointer(v)

\* ------------------------------------------------------------------ cleanup
NoRelease(h, ow) ==
  [heap |-> h, owed |-> ow, fault |-> {}, rel |-> <<>>, bad |-> FALSE]

\* Mutant of cleanup_string: the std::string is not deleted.
cleanup_string_no_delete(v, h, ow) == NoRelease(h, ow)

\* case string: delete this->value.str;
cleanup_string(v, h, ow) ==
  LET del == Delete(h, v.str) IN
    [heap |-> del.heap, owed |-> ow, fault |-> del.fault,
     rel |-> IF v.str = NullStr THEN <<>>
             ELSE <<[k |-> "delete", a |-> v.str, f |-> NullFn, p |-> NullPtr]>>,
     bad |-> FALSE]

\* Mutant of cleanup_pointer: a null pointer is taken to need no release.
cleanup_pointer_skips_null(v, h, ow) ==
  IF v.free # NullFn /\ v.ptr # NullPtr
  THEN LET call == Call(ow, v.free, v.ptr) IN
         [heap |-> h, owed |-> call.owed, fault |-> call.fault,
          rel |-> <<[k |-> "call", a |-> NullStr, f |-> v.free, p |-> v.ptr]>>,
          bad |-> FALSE]
  ELSE NoRelease(h, ow)

\* case pointer: if (free != nullptr) free(ptr);
cleanup_pointer(v, h, ow) ==
  IF v.free # NullFn
  THEN LET call == Call(ow, v.free, v.ptr) IN
         [heap |-> h, owed |-> call.owed, fault |-> call.fault,
          rel |-> <<[k |-> "call", a |-> NullStr, f |-> v.free, p |-> v.ptr]>>,
          bad |-> FALSE]
  ELSE NoRelease(h, ow)

\* Mutant of cleanup_reset: the type and the union are left as they were.
cleanup_no_reset(v) == v

\* this->type = number; this->value.num = 0.0;
cleanup_reset(v) == NumberVal(0)

\* cleanup(): release by type, then reset to number 0.0. rel lists the
\* releases made, in order.
cleanup(v, h, ow) ==
  LET done ==
        CASE v.type = number -> NoRelease(h, ow)
          [] v.type = string -> cleanup_string(v, h, ow)
          [] v.type = pointer -> cleanup_pointer(v, h, ow)
          [] OTHER -> [NoRelease(h, ow) EXCEPT !.bad = TRUE]
  IN [val |-> cleanup_reset(v), heap |-> done.heap, owed |-> done.owed,
      fault |-> done.fault, rel |-> done.rel, bad |-> done.bad]

\* ------------------------------------------------------------------ Init
Init ==
  /\ vals = [p \in Place |-> NoObj]
  /\ life = [p \in Place |-> "none"]
  /\ heap = [a \in Addr |-> NoString]
  /\ owed = [k \in Dues |-> 0]
  /\ faults = {}
  /\ moved = {}
  /\ impossible = FALSE
  /\ pc = Idle
  /\ last = Op("init", 0, 0, "ok", 0, <<>>)

\* ------------------------------------------------------------------ constructors
\* Each constructor gives the outcomes of constructing an object in a heap h:
\* "ok" with the object, or the exception thrown (and then no object).
\* value_t()
value_t_default(h) ==
  {[out |-> "ok", this |-> NumberVal(0), heap |-> h]}

\* value_t(double num)
value_t_number(num, h) ==
  {[out |-> "ok", this |-> NumberVal(num), heap |-> h]}

\* value_t(str_t&&... arg)
value_t_string(arg, h) ==
  {IF a = NullStr
   THEN [out |-> "bad_alloc", this |-> NoObj, heap |-> h]
   ELSE [out |-> "ok", this |-> StringVal(a), heap |-> Alloc(h, a, arg)]
   : a \in NewNothrow(h)}

\* Mutant of value_t_pointer: a null pointer is stored without its release
\* function.
value_t_pointer_drops_free(ptr, free, h) ==
  {[out |-> "ok",
    this |-> PointerVal(ptr, IF ptr = NullPtr THEN NullFn ELSE free),
    heap |-> h]}

\* value_t(void* ptr, freeFuncPtr_t free)
value_t_pointer(ptr, free, h) ==
  {[out |-> "ok", this |-> PointerVal(ptr, free), heap |-> h]}

\* The constructor calls a caller can write.
CtorCalls ==
  {[k |-> "ctor", n |-> 0, t |-> "", p |-> NullPtr, f |-> NullFn]}
  \cup {[k |-> "ctor_number", n |-> n, t |-> "", p |-> NullPtr, f |-> NullFn] : n \in Nums}
  \cup {[k |-> "ctor_string", n |-> 0, t |-> t, p |-> NullPtr, f |-> NullFn] : t \in Texts}
  \cup {[k |-> "ctor_pointer", n |-> 0, t |-> "", p |-> p, f |-> f] : p \in Ptrs, f \in Fns}

construct(cc, h) ==
  CASE cc.k = "ctor" -> value_t_default(h)
    [] cc.k = "ctor_number" -> value_t_number(cc.n, h)
    [] cc.k = "ctor_string" -> value_t_string(cc.t, h)
    [] cc.k = "ctor_pointer" -> value_t_pointer(cc.p, cc.f, h)

\* Handing a pointer and a release function to a value_t makes one call due.
Owe(ow, cc) ==
  IF cc.k = "ctor_pointer" /\ cc.f # NullFn
  THEN [ow EXCEPT ![<<cc.f, cc.p>>] = @ + 1]
  ELSE ow

\* The caller's objects are named in the order of their construction.
NextSlot(d) == life[d] = "none" /\ \A e \in Slot : e < d => life[e] # "none"

\* value_t d(...); last.res keeps the arguments of the call.
Construct(d, cc) ==
  /\ pc = Idle /\ NextSlot(d)
  /\ \E c \in construct(cc, heap) :
       /\ vals' = [vals EXCEPT ![d] = c.this]
       /\ life' = [life EXCEPT ![d] = IF c.out = "ok" THEN "live" ELSE "none"]
       /\ heap' = c.heap
       /\ owed' = IF c.out = "ok" THEN Owe(owed, cc) ELSE owed
       /\ last' = Op(cc.k, d, d, c.out, cc, <<>>)
  /\ UNCHANGED <<faults, moved, impossible, pc>>

\* ~value_t()
Dtor(d) ==
  /\ pc = Idle /\ life[d] = "live"
  /\ LET c == cleanup(vals[d], heap, owed) IN
       /\ vals' = [vals EXCEPT ![d] = c.val]
       /\ heap' = c.heap
       /\ owed' = c.owed
       /\ faults' = faults \cup c.fault
       /\ impossible' = (impossible \/ c.bad)
       /\ last' = Op("dtor", d, d, "ok", 0, c.rel)
  /\ life' = [life EXCEPT ![d] = "dead"]
  /\ UNCHANGED <<moved, pc>>

\* ------------------------------------------------------------------ copy
\* Mutant of copy_ctor: a pointer value is copied member by member.
copy_ctor_aliases_pointer(src, h) ==
  CASE src.type = number ->
         {[out |-> "ok", this |-> NumberVal(src.num), heap |-> h, bad |-> FALSE]}
    [] src.type = string ->
         UNION {
           IF d.out = "crash"
           THEN {[out |-> "crash", this |-> NoObj, heap |-> h, bad |-> FALSE]}
           ELSE {IF a = NullStr
                 THEN [out |-> "bad_alloc", this |-> NoObj, heap |-> h, bad |-> FALSE]
                 ELSE [out |-> "ok", this |-> StringVal(a),
                       heap |-> Alloc(h, a, d.txt), bad |-> FALSE]
                 : a \in NewNothrow(h)}
           : d \in Deref(h, src.str)}
    [] src.type = pointer ->
         {[out |-> "ok", this |-> PointerVal(src.ptr, src.free), heap |-> h, bad |-> FALSE]}
    [] OTHER ->
         {[out |-> "logic_error", this |-> NoObj, heap |-> h, bad |-> TRUE]}

\* Mutant of copy_ctor: the std::string* is copied, not the std::string.
copy_ctor_shallow(src, h) ==
  CASE src.type = number ->
         {[out |-> "ok", this |-> NumberVal(src.num), heap |-> h, bad |-> FALSE]}
    [] src.type = string ->
         {[out |-> "ok", this |-> StringVal(src.str), heap |-> h, bad |-> FALSE]}
    [] src.type = pointer ->
         {[out |-> "runtime_error", this |-> NoObj, heap |-> h, bad |-> FALSE]}
    [] OTHER ->
         {[out |-> "logic_error", this |-> NoObj, heap |-> h, bad |-> TRUE]}

\* value_t(const value_t& src): every outcome of the constructor. "ok" leaves
\* a constructed object; an exception leaves none (no destructor runs).
copy_ctor(src, h) ==
  CASE src.type = number ->
         {[out |-> "ok", this |-> NumberVal(src.num), heap |-> h, bad |-> FALSE]}
    [] src.type = string ->
         UNION {
           IF d.out = "crash"
           THEN {[out |-> "crash", this |-> NoObj, heap |-> h, bad |-> FALSE]}
           ELSE {IF a = NullStr
                 THEN [out |-> "bad_alloc", this |-> NoObj, heap |-> h, bad |-> FALSE]
                 ELSE [out |-> "ok", this |-> StringVal(a),
                       heap |-> Alloc(h, a, d.txt), bad |-> FALSE]
                 : a \in NewNothrow(h)}
           : d \in Deref(h, src.str)}
    [] src.type = pointer ->
         {[out |-> "runtime_error", this |-> NoObj, heap |-> h, bad |-> FALSE]}
    [] OTHER ->
         {[out |-> "logic_error", this |-> NoObj, heap |-> h, bad |-> TRUE]}

\* value_t d(s);
CopyCtor(d, s) ==
  /\ pc = Idle /\ NextSlot(d) /\ life[s] = "live" /\ d # s
  /\ \E c \in copy_ctor(vals[s], heap) :
       /\ vals' = [vals EXCEPT ![d] = c.this]
       /\ life' = [life EXCEPT ![d] = IF c.out = "ok" THEN "live" ELSE "none"]
       /\ heap' = c.heap
       /\ impossible' = (impossible \/ c.bad)
       /\ pc' = IF c.out = "crash" THEN Crashed ELSE Idle
       /\ last' = Op("copy_ctor", d, s, c.out, 0, <<>>)
  /\ UNCHANGED <<owed, faults, moved>>

\* ------------------------------------------------------------------ move
\* Mutant of move_ctor: the source's std::string* is not set to nullptr.
move_ctor_keeps_str(src) ==
  CASE src.type = number ->
         [this |-> NumberVal(src.num), src |-> src, bad |-> FALSE]
    [] src.type = string ->
         [this |-> StringVal(src.str), src |-> src, bad |-> FALSE]
    [] src.type = pointer ->
         [this |-> PointerVal(src.ptr, src.free),
          src |-> PointerVal(NullPtr, NullFn), bad |-> FALSE]
    [] OTHER ->
         [this |-> [type |-> src.type], src |-> src, bad |-> TRUE]

\* Mutant of move_ctor: the source's release function is not set to nullptr.
move_ctor_keeps_free(src) ==
  CASE src.type = number ->
         [this |-> NumberVal(src.num), src |-> src, bad |-> FALSE]
    [] src.type = string ->
         [this |-> StringVal(src.str), src |-> StringVal(NullStr), bad |-> FALSE]
    [] src.type = pointer ->
         [this |-> PointerVal(src.ptr, src.free),
          src |-> PointerVal(NullPtr, src.free), bad |-> FALSE]
    [] OTHER ->
         [this |-> [type |-> src.type], src |-> src, bad |-> TRUE]

\* Mutant of move_ctor: the source is reset to number 0.0.
move_ctor_resets_src(src) ==
  CASE src.type = number ->
         [this |-> NumberVal(src.num), src |-> NumberVal(0), bad |-> FALSE]
    [] src.type = string ->
         [this |-> StringVal(src.str), src |-> NumberVal(0), bad |-> FALSE]
    [] src.type = pointer ->
         [this |-> PointerVal(src.ptr, src.free), src |-> NumberVal(0), bad |-> FALSE]
    [] OTHER ->
         [this |-> [type |-> src.type], src |-> src, bad |-> TRUE]

\* value_t(value_t&& src): the new object and what is left in src.
move_ctor(src) ==
  CASE src.type = number ->
         [this |-> NumberVal(src.num), src |-> src, bad |-> FALSE]
    [] src.type = string ->
         [this |-> StringVal(src.str), src |-> StringVal(NullStr), bad |-> FALSE]
    [] src.type = pointer ->
         [this |-> PointerVal(src.ptr, src.free),
          src |-> PointerVal(NullPtr, NullFn), bad |-> FALSE]
    [] OTHER ->
         [this |-> [type |-> src.type], src |-> src, bad |-> TRUE]

\* value_t d(std::move(s));
MoveCtor(d, s) ==
  /\ pc = Idle /\ NextSlot(d) /\ life[s] = "live" /\ d # s
  /\ LET m == move_ctor(vals[s]) IN
       /\ vals' = [vals EXCEPT ![d] = m.this, ![s] = m.src]
       /\ impossible' = (impossible \/ m.bad)
  /\ life' = [life EXCEPT ![d] = "live"]
  /\ moved' = moved \cup {s}
  /\ last' = Op("move_ctor", d, s, "ok", 0, <<>>)
  /\ UNCHANGED <<heap, owed, faults, pc>>

\* Mutant of move_assign_take: rhs's std::string* is not set to nullptr.
move_assign_take_keeps_str(rhs) ==
  CASE rhs.type = number ->
         [this |-> NumberVal(rhs.num), rhs |-> rhs, bad |-> FALSE]
    [] rhs.type = string ->
         [this |-> StringVal(rhs.str), rhs |-> rhs, bad |-> FALSE]
    [] rhs.type = pointer ->
         [this |-> PointerVal(rhs.ptr, rhs.free),
          rhs |-> PointerVal(NullPtr, NullFn), bad |-> FALSE]
    [] OTHER ->
         [this |-> [type |-> rhs.type], rhs |-> rhs, bad |-> TRUE]

\* operator=(value_t&& rhs) after cleanup(): type = rhs.type and the switch.
move_assign_take(rhs) ==
  CASE rhs.type = number ->
         [this |-> NumberVal(rhs.num), rhs |-> rhs, bad |-> FALSE]
    [] rhs.type = string ->
         [this |-> StringVal(rhs.str), rhs |-> StringVal(NullStr), bad |-> FALSE]
    [] rhs.type = pointer ->
         [this |-> PointerVal(rhs.ptr, rhs.free),
          rhs |-> PointerVal(NullPtr, NullFn), bad |-> FALSE]
    [] OTHER ->
         [this |-> [type |-> rhs.type], rhs |-> rhs, bad |-> TRUE]

\* Mutant of AssignCleanup: operator=(value_t&&) without this->cleanup().
AssignNoCleanup(d, s, l) ==
  /\ pc' = [at |-> "take", dst |-> d, src |-> s]
  /\ last' = l
  /\ UNCHANGED <<vals, heap, owed, faults, impossible>>

\* The first statement of operator=(value_t&&) on *this = d: this->cleanup().
\* l is the record of the assignment statement that is running.
AssignCleanup(d, s, l) ==
  LET c == cleanup(vals[d], heap, owed) IN
    /\ vals' = [vals EXCEPT ![d] = c.val]
    /\ heap' = c.heap
    /\ owed' = c.owed
    /\ faults' = faults \cup c.fault
    /\ impossible' = (impossible \/ c.bad)
    /\ pc' = [at |-> "take", dst |-> d, src |-> s]
    /\ last' = [l EXCEPT !.rel = c.rel]

\* Mutant of MoveAssign: operator=(value_t&&) without the test this != &rhs.
MoveAssignNoSelfTest(d, s) ==
  /\ pc = Idle /\ life[d] = "live" /\ life[s] = "live"
  /\ AssignCleanup(d, s, Op("move_assign", d, s, "running", 0, <<>>))
  /\ UNCHANGED <<life, moved>>

\* d = std::move(s); with this == &rhs nothing is done.
MoveAssign(d, s) ==
  /\ pc = Idle /\ life[d] = "live" /\ life[s] = "live"
  /\ IF d = s
     THEN /\ last' = Op("move_assign", d, s, "ok", 0, <<>>)
          /\ UNCHANGED <<vals, heap, owed, faults, impossible, pc>>
     ELSE AssignCleanup(d, s, Op("move_assign", d, s, "running", 0, <<>>))
  /\ UNCHANGED <<life, moved>>

\* The rest of operator=(value_t&&): take rhs's type and payload.
MoveAssignTake ==
  /\ pc.at = "take"
  /\ LET d == pc.dst
         s == pc.src
         m == move_assign_take(vals[s]) IN
       /\ vals' = [vals EXCEPT ![d] = m.this, ![s] = m.rhs]
       /\ impossible' = (impossible \/ m.bad)
       /\ moved' = (moved \ {d}) \cup {s}
       /\ pc' = IF s = Tmp THEN [at |-> "tmp_dtor", dst |-> d, src |-> s] ELSE Idle
       /\ last' = [last EXCEPT !.out = IF s = Tmp THEN "running" ELSE "ok"]
  /\ UNCHANGED <<life, heap, owed, faults>>

\* Mutant of CopyAssign: the left-hand side is cleaned up before the copy of
\* rhs is made in it.
CopyAssignCleanupFirst(d, s) ==
  /\ pc = Idle /\ life[d] = "live" /\ life[s] = "live"
  /\ IF d = s
     THEN /\ last' = Op("copy_assign", d, s, "ok", 0, <<>>)
          /\ UNCHANGED <<vals, heap, owed, faults, impossible, pc, moved>>
     ELSE LET k == cleanup(vals[d], heap, owed) IN
          \E c \in copy_ctor(vals[s], k.heap) :
            /\ vals' = [vals EXCEPT ![d] = IF c.out = "ok" THEN c.this ELSE k.val]
            /\ heap' = c.heap
            /\ owed' = k.owed
            /\ faults' = faults \cup k.fault
            /\ impossible' = (impossible \/ k.bad \/ c.bad)
            /\ moved' = moved \ {d}
            /\ pc' = IF c.out = "crash" THEN Crashed ELSE Idle
            /\ last' = Op("copy_assign", d, s, c.out, 0, k.rel)
  /\ UNCHANGED life

\* d = s; with this == &rhs nothing is done; else the temporary value_t(rhs)
\* is constructed, and an exception of its constructor ends the assignment.
CopyAssign(d, s) ==
  /\ pc = Idle /\ life[d] = "live" /\ life[s] = "live"
  /\ IF d = s
     THEN /\ last' = Op("copy_assign", d, s, "ok", 0, <<>>)
          /\ UNCHANGED <<vals, life, heap, impossible, pc>>
     ELSE \E c \in copy_ctor(vals[s], heap) :
            /\ vals' = [vals EXCEPT ![Tmp] = c.this]
            /\ life' = [life EXCEPT ![Tmp] = IF c.out = "ok" THEN "live" ELSE "none"]
            /\ heap' = c.heap
            /\ impossible' = (impossible \/ c.bad)
            /\ pc' = CASE c.out = "ok" -> [at |-> "move_tmp", dst |-> d, src |-> Tmp]
                       [] c.out = "crash" -> Crashed
                       [] OTHER -> Idle
            /\ last' = Op("copy_assign", d, s,
                          IF c.out = "ok" THEN "running" ELSE c.out, 0, <<>>)
  /\ UNCHANGED <<owed, faults, moved>>

\* d = value_t(...); the temporary is constructed, and an exception of its
\* constructor ends the statement.
AssignTemp(d, cc) ==
  /\ pc = Idle /\ life[d] = "live"
  /\ \E c \in construct(cc, heap) :
       /\ vals' = [vals EXCEPT ![Tmp] = c.this]
       /\ life' = [life EXCEPT ![Tmp] = IF c.out = "ok" THEN "live" ELSE "none"]
       /\ heap' = c.heap
       /\ owed' = IF c.out = "ok" THEN Owe(owed, cc) ELSE owed
       /\ pc' = IF c.out = "ok" THEN [at |-> "move_tmp", dst |-> d, src |-> Tmp] ELSE Idle
       /\ last' = Op("assign_temp", d, Tmp,
                     IF c.out = "ok" THEN "running" ELSE c.out, 0, <<>>)
  /\ UNCHANGED <<faults, moved, impossible>>

\* *this = <temporary>: operator=(value_t&&) begins with this->cleanup().
TmpAssignCleanup ==
  /\ pc.at = "move_tmp"
  /\ AssignCleanup(pc.dst, Tmp, last)
  /\ UNCHANGED <<life, moved>>

\* The temporary value_t(rhs) is destroyed at the end of the statement.
TmpDtor ==
  /\ pc.at = "tmp_dtor"
  /\ LET c == cleanup(vals[Tmp], heap, owed) IN
       /\ vals' = [vals EXCEPT ![Tmp] = NoObj]
       /\ heap' = c.heap
       /\ owed' = c.owed
       /\ faults' = faults \cup c.fault
       /\ impossible' = (impossible \/ c.bad)
       /\ last' = [last EXCEPT !.out = "ok", !.rel = last.rel \o c.rel]
  /\ life' = [life EXCEPT ![Tmp] = "none"]
  /\ moved' = moved \ {Tmp}
  /\ pc' = Idle

\* ------------------------------------------------------------------ reads
\* Mutant of Access: an accessor of another type cleans the object up before
\* it throws.
AccessCleansOnMismatch(d, ty) ==
  /\ pc = Idle /\ life[d] = "live"
  /\ \E r \in As(ty, vals[d], heap) :
       LET c == IF r.out = "runtime_error"
                THEN cleanup(vals[d], heap, owed)
                ELSE [NoRelease(heap, owed) EXCEPT !.rel = <<>>] @@ [val |-> vals[d]]
       IN /\ vals' = [vals EXCEPT ![d] = c.val]
          /\ heap' = c.heap
          /\ owed' = c.owed
          /\ last' = Op(ty, d, d, r.out, r.res, <<>>)
          /\ pc' = IF r.out = "crash" THEN Crashed ELSE Idle
  /\ UNCHANGED <<life, faults, moved, impossible>>

\* d.As<ty>(), which is d.AsNumber(), d.AsString() or d.AsPointer(); last.op
\* is the type asked for.
Access(d, ty) ==
  /\ pc = Idle /\ life[d] = "live"
  /\ \E r \in As(ty, vals[d], heap) :
       /\ last' = Op(ty, d, d, r.out, r.res, <<>>)
       /\ pc' = IF r.out = "crash" THEN Crashed ELSE Idle
  /\ UNCHANGED <<vals, life, heap, owed, faults, moved, impossible>>

Next ==
  \/ \E d \in Slot, cc \in CtorCalls : Construct(d, cc)
  \/ \E d \in Slot : Dtor(d)
  \/ \E d \in Slot, s \in Slot : CopyCtor(d, s)
  \/ \E d \in Slot, s \in Slot : MoveCtor(d, s)
  \/ \E d \in Slot, s \in Slot : MoveAssign(d, s)
  \/ MoveAssignTake
  \/ \E d \in Slot, s \in Slot : CopyAssign(d, s)
  \/ \E d \in Slot, cc \in CtorCalls : AssignTemp(d, cc)
  \/ TmpAssignCleanup
  \/ TmpDtor
  \/ \E d \in Slot, ty \in type_t : Access(d, ty)

Spec == Init /\ [][Next]_vars

\* ================================================================== claims
ReleaseOf(v) ==
  CASE v.type = string /\ v.str # NullStr ->
         <<[k |-> "delete", a |-> v.str, f |-> NullFn, p |-> NullPtr]>>
    [] v.type = pointer /\ v.free # NullFn ->
         <<[k |-> "call", a |-> NullStr, f |-> v.free, p |-> v.ptr]>>
    [] OTHER -> <<>>

\* C1: whenever an accessor has been called on a value (a moved-from one
\* included), its type is one of number, string, pointer; the accessor of that
\* type succeeded and returned the stored payload, and an accessor of another
\* type failed with runtime_error (TypeMismatch).
C1_AccessorFollowsTag ==
  /\ \A d \in Slot : life[d] = "live" => Type(vals[d]) \in type_t
  /\ last.op \in type_t =>
       LET v == vals[last.dst] IN
         IF last.op = Type(v)
         THEN /\ last.out = "ok"
              /\ CASE Type(v) = number -> last.res = v.num
                   [] Type(v) = string ->
                        /\ v.str # NullStr
                        /\ heap[v.str].st = "live"
                        /\ last.res = heap[v.str].txt
                   [] Type(v) = pointer -> last.res = v.ptr
         ELSE last.out = "runtime_error"

\* C2: destroying a pointer value holding (p, r) calls r exactly once, with
\* p, when r is not null (also when p is null), and calls nothing when r is
\* null; no std::string is deleted.
C2_DtorCallsReleaserOnce ==
  [][\A d \in Slot :
       (life[d] = "live" /\ life'[d] = "dead" /\ vals[d].type = pointer) =>
         /\ heap' = heap
         /\ faults' = faults
         /\ IF vals[d].free # NullFn
            THEN /\ last'.rel = <<[k |-> "call", a |-> NullStr,
                                  f |-> vals[d].free, p |-> vals[d].ptr]>>
                 /\ owed' = [owed EXCEPT ![<<vals[d].free, vals[d].ptr>>] = @ - 1]
            ELSE /\ last'.rel = <<>>
                 /\ owed' = owed]_vars

\* A non-null release function has just been called once with a null pointer
\* by a destructor.
C2_Witness ==
  /\ last.op = "dtor"
  /\ last.rel = <<[k |-> "call", a |-> NullStr, f |-> "freeBuf", p |-> NullPtr]>>
  /\ owed[<<"freeBuf", NullPtr>>] = 0

\* The step makes the object at d discard its content: it is destroyed, or
\* an assignment to it runs its cleanup.
Discards(d) ==
  /\ life[d] = "live"
  /\ \/ life'[d] # "live"
     \/ pc.at # "take" /\ pc'.at = "take" /\ pc'.dst = d

\* C3: no std::string is deleted twice and no release function is called
\* for a referent it was already called for; a std::string is deleted, and a
\* release function called, only in a step in which the value that holds it
\* discards its content (destructor, or cleanup of an assignment).
C3_NoDoubleRelease ==
  [][/\ faults' = {}
     /\ \A a \in Addr :
          (heap[a].st = "live" /\ heap'[a].st = "free") =>
            \E d \in Place : Discards(d) /\ vals[d] = StringVal(a)
     /\ \A k \in Dues :
          owed'[k] < owed[k] =>
            /\ owed'[k] = owed[k] - 1
            /\ \E d \in Place : Discards(d) /\ vals[d] = PointerVal(k[2], k[1])]_vars

\* A std::string was moved from object 1 to object 2, both objects have been
\* destroyed, and the string was deleted by the second destructor only.
C3_Witness ==
  /\ life[1] = "dead" /\ life[2] = "dead"
  /\ 1 \in moved
  /\ last.op = "dtor" /\ last.dst = 2
  /\ Len(last.rel) = 1 /\ last.rel[1].k = "delete"
  /\ \A a \in Addr : heap[a].st = "free"
  /\ faults = {}

\* What a move leaves in its source: the null std::string*, the null pointer
\* and release function, or the number.
Disengaged(v) ==
  CASE v.type = string -> StringVal(NullStr)
    [] v.type = pointer -> PointerVal(NullPtr, NullFn)
    [] OTHER -> v

\* The step is the move construction of d from s.
MoveCtorStep(d, s) ==
  /\ life[d] = "none" /\ life'[d] = "live"
  /\ last'.op = "move_ctor" /\ last'.src = s

\* The step is the second half of a move assignment to d from s.
TakeStep(d, s) ==
  /\ pc.at = "take" /\ pc.dst = d /\ pc.src = s
  /\ pc'.at # "take"

\* The step is the cleanup that begins a move assignment to d from s.
CleanupStep(d, s) ==
  /\ pc.at # "take"
  /\ pc'.at = "take" /\ pc'.dst = d /\ pc'.src = s

\* The step is the destructor of d.
DtorStep(d) == life[d] = "live" /\ life'[d] = "dead"

\* The heap and the calls owed after the releases ReleaseOf(v), and no other.
Released(v) ==
  /\ heap' = IF v.type = string /\ v.str # NullStr
             THEN [heap EXCEPT ![v.str] = NoString] ELSE heap
  /\ owed' = IF v.type = pointer /\ v.free # NullFn
             THEN [owed EXCEPT ![<<v.free, v.ptr>>] = @ - 1] ELSE owed
  /\ faults' = faults

\* C4: a move (constructor or assignment) of a value of any type does not
\* fail and releases nothing; the destination then holds the type and payload
\* the source held; the destructor of a moved-from object releases nothing;
\* and a destructor releases what its object holds exactly once.
C4_MoveTransfers ==
  [][/\ \A d \in Slot, s \in Place :
          (MoveCtorStep(d, s) \/ TakeStep(d, s)) =>
            /\ last'.out \in {"ok", "running"}
            /\ pc' # Crashed
            /\ vals'[d] = vals[s]
            /\ As(Type(vals[s]), vals'[d], heap') = As(Type(vals[s]), vals[s], heap)
            /\ heap' = heap /\ owed' = owed /\ faults' = faults
            /\ s \in moved'
            /\ cleanup(vals'[s], heap', owed').rel = <<>>
     /\ \A d \in Slot :
          DtorStep(d) =>
            /\ last'.rel = ReleaseOf(vals[d])
            /\ Released(vals[d])
            /\ d \in moved =>
                 last'.rel = <<>> /\ heap' = heap /\ owed' = owed]_vars

\* p = value_t(buf, freeBuf); q = std::move(p); p and then q were destroyed,
\* and freeBuf(buf) was called by q's destructor and not by p's.
C4_Witness ==
  /\ life[1] = "dead" /\ life[2] = "dead"
  /\ 1 \in moved /\ 2 \notin moved
  /\ last.op = "dtor" /\ last.dst = 2
  /\ last.rel = <<[k |-> "call", a |-> NullStr, f |-> "freeBuf", p |-> "buf"]>>
  /\ \A k \in Dues : owed[k] = 0
  /\ faults = {}

\* C5: a move assignment first releases what the destination holds, exactly
\* once and while the source still holds its payload, leaving the destination
\* number 0.0; it then gives the destination the source's type and payload and
\* disengages the source, releasing nothing more.
C5_MoveAssignReleasesFirst ==
  [][\A d \in Slot, s \in Place :
       /\ CleanupStep(d, s) =>
            /\ last'.rel = ReleaseOf(vals[d])
            /\ Released(vals[d])
            /\ vals'[d] = NumberVal(0)
            /\ vals'[s] = vals[s]
       /\ TakeStep(d, s) =>
            /\ vals'[d] = vals[s]
            /\ vals'[s] = Disengaged(vals[s])
            /\ heap' = heap /\ owed' = owed /\ faults' = faults
            /\ last'.rel = last.rel]_vars

\* d = std::move(s) has returned for a d that held a std::string and an s
\* that held another: d's string was deleted, d holds s's, s holds nullptr.
C5_Witness ==
  /\ last.op = "move_assign" /\ last.out = "ok"
  /\ Len(last.rel) = 1 /\ last.rel[1].k = "delete"
  /\ vals[last.dst].type = string
  /\ vals[last.dst].str \notin {NullStr, last.rel[1].a}
  /\ heap[vals[last.dst].str].st = "live"
  /\ vals[last.src] = StringVal(NullStr)

\* The step is d's copy construction from s, or the call d = s.
CopyStep(d, s) ==
  /\ pc = Idle
  /\ last'.op \in {"copy_ctor", "copy_assign"}
  /\ last'.dst = d /\ last'.src = s

\* The step changed no object, no std::string and no call owed.
NothingChanged ==
  /\ vals' = vals /\ life' = life /\ heap' = heap
  /\ owed' = owed /\ faults' = faults /\ pc' = Idle

\* C6 as claimed: every copy construction and every copy assignment from a
\* pointer value fails with runtime_error (UnsupportedOperation) and changes
\* nothing: no release function is called and no object comes to hold the
\* pointer.
C6_PointerCopyAlwaysFails ==
  [][\A d \in Slot, s \in Slot :
       (CopyStep(d, s) /\ vals[s].type = pointer) =>
         last'.out = "runtime_error" /\ NothingChanged]_vars

\* C6 amended: a copy construction from a pointer value, and a copy
\* assignment of a pointer value to another object, fails with runtime_error
\* and changes nothing; the copy assignment of a pointer value to itself does
\* not fail, and changes nothing either.
C6_PointerCopyToOtherFails ==
  [][\A d \in Slot, s \in Slot :
       (CopyStep(d, s) /\ vals[s].type = pointer) =>
         /\ last'.out = (IF d = s THEN "ok" ELSE "runtime_error")
         /\ NothingChanged]_vars

\* d = s has thrown runtime_error for an s that holds buf with freeBuf and a
\* d that holds a std::string; freeBuf(buf) is still owed once.
C6_Witness ==
  /\ pc = Idle
  /\ last.op = "copy_assign" /\ last.out = "runtime_error"
  /\ vals[last.src] = PointerVal("buf", "freeBuf")
  /\ vals[last.dst].type = string
  /\ owed[<<"freeBuf", "buf">>] = 1

\* C7: a copy assignment whose copy of the right-hand side fails (bad_alloc
\* for a string, runtime_error for a pointer) leaves both values as they
\* were and releases nothing.
C7_CopyAssignAllOrNothing ==
  [][\A d \in Slot, s \in Slot :
       (/\ CopyStep(d, s)
        /\ last'.op = "copy_assign"
        /\ last'.out \in {"bad_alloc", "runtime_error"}) => NothingChanged]_vars

\* d = s has thrown bad_alloc while d and s held a std::string each; both
\* strings are live.
C7_Witness ==
  /\ pc = Idle
  /\ last.op = "copy_assign" /\ last.out = "bad_alloc"
  /\ vals[last.dst].type = string /\ vals[last.src].type = string
  /\ vals[last.dst].str # NullStr /\ vals[last.src].str # NullStr
  /\ vals[last.dst].str # vals[last.src].str
  /\ heap[vals[last.dst].str].st = "live"
  /\ heap[vals[last.src].str].st = "live"

\* v holds a number, or a std::string that is live in h.
HoldsContent(v, h) ==
  \/ v.type = number
  \/ v.type = string /\ v.str # NullStr /\ h[v.str].st = "live"

\* c (in heap hc) is a copy of v (in heap hv): an equal number, or an equal
\* text in a std::string of its own.
IsCopyOf(c, hc, v, hv) ==
  /\ c.type = v.type
  /\ v.type = number => c.num = v.num
  /\ v.type = string =>
       /\ c.str \notin {NullStr, v.str}
       /\ hc[c.str] = [st |-> "live", txt |-> hv[v.str].txt]

\* The step leaves the object at a and its std::string as they were.
Untouched(a) ==
  /\ vals'[a] = vals[a]
  /\ life'[a] = life[a]
  /\ (vals[a].type = string /\ vals[a].str # NullStr) =>
       heap'[vals[a].str] = heap[vals[a].str]

\* C8: a copy (constructed, or assigned) of a value holding a number or a
\* std::string holds equal content in storage of its own, that storage was
\* not in use before, and the original is unchanged by the copy; and every
\* step of every operation leaves each object that is neither its left-hand
\* side nor its right-hand side, and that object's std::string, unchanged:
\* reassigning, moving from or destroying the copy does not change the
\* original.
C8_CopyIsIndependent ==
  [][/\ \A d \in Slot, s \in Slot :
          (/\ CopyStep(d, s) /\ d # s
           /\ last'.out \in {"ok", "running"}
           /\ HoldsContent(vals[s], heap)) =>
            LET c == IF last'.op = "copy_ctor" THEN d ELSE Tmp IN
              /\ life'[c] = "live"
              /\ IsCopyOf(vals'[c], heap', vals[s], heap)
              /\ vals[s].type = string => heap[vals'[c].str].st = "free"
              /\ Untouched(s)
     /\ \A d \in Slot, s \in Slot :
          (/\ pc.at = "tmp_dtor" /\ pc' = Idle
           /\ last'.op = "copy_assign" /\ last'.dst = d /\ last'.src = s
           /\ HoldsContent(vals[s], heap)) =>
            /\ IsCopyOf(vals'[d], heap', vals'[s], heap')
            /\ Untouched(s)
     /\ \A a \in Slot :
          (life[a] = "live" /\ a \notin {last'.dst, last'.src}) => Untouched(a)
     /\ \A a \in Slot :
          (last'.op \in {"copy_ctor", "copy_assign"} /\ a = last'.src) =>
            Untouched(a)]_vars

\* b has just been copy constructed from a, which holds "hello": b holds
\* "hello" in a std::string of its own.
C8_Witness ==
  /\ last.op = "copy_ctor" /\ last.out = "ok"
  /\ vals[last.src].type = string /\ vals[last.dst].type = string
  /\ vals[last.src].str # NullStr
  /\ IsCopyOf(vals[last.dst], heap, vals[last.src], heap)
  /\ heap[vals[last.src].str] = [st |-> "live", txt |-> "hello"]

\* C9: at no time, the steps inside an assignment included, do two live
\* objects (the temporary of an assignment included) hold the same non-null
\* std::string*.
C9_NoSharedStorage ==
  \A p \in Place, q \in Place :
    (/\ p # q
     /\ life[p] = "live" /\ life[q] = "live"
     /\ vals[p].type = string /\ vals[q].type = string
     /\ vals[p].str # NullStr) => vals[p].str # vals[q].str

\* A std::string has just been move constructed out of an object: the new
\* object holds it and the source holds nullptr.
C9_Witness ==
  /\ last.op = "move_ctor"
  /\ vals[last.dst].type = string
  /\ vals[last.dst].str # NullStr
  /\ heap[vals[last.dst].str].st = "live"
  /\ vals[last.src] = StringVal(NullStr)
  /\ life[last.src] = "live"

\* The type of v is one of the three and its union holds the member of that
\* type; a std::string* satisfies okStr.
WellFormed(v, okStr(_)) ==
  CASE v.type = number -> DOMAIN v = {"type", "num"} /\ v.num \in Nums
    [] v.type = string -> DOMAIN v = {"type", "str"} /\ okStr(v.str)
    [] v.type = pointer ->
         DOMAIN v = {"type", "ptr", "free"} /\ v.ptr \in Ptrs /\ v.free \in Fns
    [] OTHER -> FALSE

\* C10 as claimed: every live object has one of the three types and the
\* payload of that type; a string value refers to a live std::string; no
\* default: branch of a switch on the type is ever reached.
C10_TagAgreesWithPayload ==
  /\ impossible = FALSE
  /\ \A p \in Place :
       life[p] = "live" =>
         LET LiveStr(a) == a \in Addr /\ heap[a].st = "live"
         IN WellFormed(vals[p], LiveStr)

\* C10 amended: as claimed, except that a string value may hold nullptr:
\* an object comes to hold type string with nullptr only by being the source
\* of a move of a string value, or the destination of a move from an object
\* in that state.
C10_TagAgreesOrDisengaged ==
  /\ [](/\ impossible = FALSE
        /\ \A p \in Place :
             life[p] = "live" =>
               LET LiveOrNull(a) == a = NullStr \/ (a \in Addr /\ heap[a].st = "live")
               IN WellFormed(vals[p], LiveOrNull))
  /\ [][\A p \in Place :
          (/\ life'[p] = "live"
           /\ vals'[p] = StringVal(NullStr)
           /\ ~(life[p] = "live" /\ vals[p] = StringVal(NullStr))) =>
            \E d \in Slot, s \in Place :
              /\ MoveCtorStep(d, s) \/ TakeStep(d, s)
              /\ vals[s].type = string
              /\ p = s \/ (p = d /\ vals[s].str = NullStr)]_vars

\* A live object that was moved from holds type string and nullptr, beside
\* an object that holds a live std::string.
C10_Witness ==
  \E p \in Slot, q \in Slot :
    /\ life[p] = "live" /\ life[q] = "live"
    /\ p \in moved /\ vals[p] = StringVal(NullStr)
    /\ vals[q].type = string /\ vals[q].str # NullStr
    /\ heap[vals[q].str].st = "live"

\* C11: a copy construction or copy assignment (to another object) from a
\* value of type string, in any state the operations can bring it to (one
\* that was the source of a move included), either makes a string value with
\* a std::string of its own, not in use before, holding text equal to the
\* source's and leaves the source as it was, or fails with bad_alloc and
\* changes nothing; there is no other outcome.
C11_TextCopyFreshOrBadAlloc ==
  [][\A d \in Slot, s \in Slot :
       (CopyStep(d, s) /\ d # s /\ vals[s].type = string) =>
         \/ last'.out = "bad_alloc" /\ NothingChanged
         \/ /\ last'.out \in {"ok", "running"}
            /\ HoldsContent(vals[s], heap)
            /\ LET c == IF last'.op = "copy_ctor" THEN d ELSE Tmp IN
                 /\ life'[c] = "live"
                 /\ IsCopyOf(vals'[c], heap', vals[s], heap)
                 /\ heap[vals'[c].str].st = "free"
            /\ Untouched(s)]_vars

\* The accessor of type ty succeeds on v with result res, and the accessors
\* of the other two types fail with runtime_error.
OnlyAccessor(v, ty, res) ==
  /\ Type(v) = ty
  /\ As(ty, v, heap) = {[out |-> "ok", res |-> res]}
  /\ \A t \in type_t \ {ty} : \A r \in As(t, v, heap) : r.out = "runtime_error"

\* C12: an object that has just been constructed holds exactly what its
\* constructor was given: value_t() holds number 0.0, value_t(n) number n,
\* value_t(t) a string of its own with text t, value_t(p, f) pointer p with
\* release function f, one or both of them null included; the accessor of
\* that type returns it and the other two accessors fail with runtime_error.
C12_CtorEstablishes ==
  (last.op \in {"ctor", "ctor_number", "ctor_string", "ctor_pointer"}
   /\ last.out = "ok") =>
    LET v == vals[last.dst]
        cc == last.res
    IN /\ life[last.dst] = "live"
       /\ CASE last.op = "ctor" -> v = NumberVal(0) /\ OnlyAccessor(v, number, 0)
            [] last.op = "ctor_number" ->
                 v = NumberVal(cc.n) /\ OnlyAccessor(v, number, cc.n)
            [] last.op = "ctor_string" ->
                 /\ v.type = string /\ v.str \in Addr
                 /\ heap[v.str] = [st |-> "live", txt |-> cc.t]
                 /\ \A p \in Place \ {last.dst} : life[p] = "live" => vals[p] # v
                 /\ OnlyAccessor(v, string, cc.t)
            [] last.op = "ctor_pointer" ->
                 /\ v = PointerVal(cc.p, cc.f)
                 /\ OnlyAccessor(v, pointer, cc.p)
                 /\ cleanup(v, heap, owed).rel = ReleaseOf(PointerVal(cc.p, cc.f))

\* value_t(nullptr, freeBuf) has just been constructed: the object holds the
\* null pointer with freeBuf, and one call of freeBuf(nullptr) is owed.
C12_Witness ==
  /\ last.op = "ctor_pointer" /\ last.out = "ok"
  /\ last.res.p = NullPtr /\ last.res.f = "freeBuf"
  /\ vals[last.dst] = PointerVal(NullPtr, "freeBuf")
  /\ AsPointer(vals[last.dst]) = {[out |-> "ok", res |-> NullPtr]}
  /\ owed[<<"freeBuf", NullPtr>>] = 1

\* C13: the copy assignment d = s to another object releases what d holds
\* exactly once, and only after the copy of s has been completely
\* constructed: the statement that makes the copy releases nothing and
\* leaves d as it was; the cleanup that follows finds the copy alive and
\* makes exactly the release of what d held; taking the copy and destroying
\* the emptied temporary release nothing more. When the assignment returns,
\* d holds content equal to that of s (for an s that holds content), and s
\* and its std::string are unchanged by every step.
C13_CopyAssignReleasesAfterCopy ==
  [][\A d \in Slot, s \in Slot :
       (last'.op = "copy_assign" /\ last'.dst = d /\ last'.src = s /\ d # s) =>
         /\ Untouched(s)
         /\ last'.out = "ok" => pc.at = "tmp_dtor"
         /\ CopyStep(d, s) =>
              /\ Untouched(d)
              /\ last'.rel = <<>>
              /\ owed' = owed /\ faults' = faults
              /\ \A a \in Addr : heap[a].st = "live" => heap'[a] = heap[a]
              /\ last'.out = "running" =>
                   /\ life'[Tmp] = "live"
                   /\ HoldsContent(vals[s], heap) =>
                        IsCopyOf(vals'[Tmp], heap', vals[s], heap)
         /\ CleanupStep(d, Tmp) =>
              /\ life[Tmp] = "live" /\ Untouched(Tmp)
              /\ last.rel = <<>>
              /\ last'.rel = ReleaseOf(vals[d])
              /\ Released(vals[d])
         /\ TakeStep(d, Tmp) =>
              /\ vals'[d] = vals[Tmp]
              /\ last'.rel = last.rel
              /\ heap' = heap /\ owed' = owed /\ faults' = faults
         /\ (pc.at = "tmp_dtor" /\ pc' = Idle) =>
              /\ last'.out = "ok"
              /\ last'.rel = last.rel
              /\ heap' = heap /\ owed' = owed /\ faults' = faults
              /\ vals'[d] = vals[d]
              /\ life'[Tmp] = "none"
              /\ HoldsContent(vals[s], heap) =>
                   IsCopyOf(vals'[d], heap', vals'[s], heap')]_vars

\* d = s has returned for a d that held buf with freeBuf and an s that holds
\* "hello": freeBuf(buf) was called once, d holds "hello" in a std::string of
\* its own, and s still holds its "hello".
C13_Witness ==
  /\ pc = Idle
  /\ last.op = "copy_assign" /\ last.out = "ok" /\ last.dst # last.src
  /\ last.rel = <<[k |-> "call", a |-> NullStr, f |-> "freeBuf", p |-> "buf"]>>
  /\ owed[<<"freeBuf", "buf">>] = 0
  /\ vals[last.src].type = string /\ vals[last.src].str # NullStr
  /\ heap[vals[last.src].str] = [st |-> "live", txt |-> "hello"]
  /\ IsCopyOf(vals[last.dst], heap, vals[last.src], heap)
  /\ life[Tmp] = "none"

\* C14: cleanup() leaves number 0.0 whatever the object held: between the
\* cleanup and the take of a move assignment the destination is number 0.0,
\* and so is a destroyed object; and at no time, the steps inside an
\* assignment included, does an object hold type string with a deleted
\* std::string, or type pointer with a release function whose call for that
\* pointer has already been made.
C14_CleanupLeavesDefault ==
  /\ pc.at = "take" => life[pc.dst] = "live" /\ vals[pc.dst] = NumberVal(0)
  /\ \A p \in Place :
       /\ life[p] = "dead" => vals[p] = NumberVal(0)
       /\ life[p] = "live" =>
            /\ cleanup(vals[p], heap, owed).val = NumberVal(0)
            /\ vals[p].type = string =>
                 vals[p].str = NullStr \/ heap[vals[p].str].st = "live"
            /\ (vals[p].type = pointer /\ vals[p].free # NullFn) =>
                 owed[<<vals[p].free, vals[p].ptr>>] > 0

\* A move assignment to an object that held a std::string is between its
\* cleanup and its take: the string is deleted and the object is number 0.0,
\* while the right-hand side still holds its payload.
C14_Witness ==
  /\ pc.at = "take" /\ pc.src # Tmp
  /\ last.op = "move_assign" /\ last.out = "running"
  /\ Len(last.rel) = 1 /\ last.rel[1].k = "delete"
  /\ heap[last.rel[1].a].st = "free"
  /\ vals[pc.dst] = NumberVal(0)
  /\ vals[pc.src] = PointerVal("buf", "freeBuf")

\* The live objects (the temporary of an assignment included) that hold v.
Holders(v) == {p \in Place : life[p] = "live" /\ vals[p] = v}

\* C15: at every time each std::string allocated and not yet deleted is held
\* by exactly one live object, each call of a release function that is due is
\* due to exactly as many live objects as hold that function with that
\* pointer, and nothing was released twice; so when every object that was
\* created has been destroyed, after whatever copies, moves, assignments and
\* failed copies, every std::string that was allocated is deleted, every
\* non-null release function handed in was called, and each exactly once.
C15_NoLeak ==
  /\ faults = {}
  /\ \A a \in Addr :
       Cardinality(Holders(StringVal(a))) = IF heap[a].st = "live" THEN 1 ELSE 0
  /\ \A k \in Dues : owed[k] = Cardinality(Holders(PointerVal(k[2], k[1])))
  /\ (\A p \in Place : life[p] # "live") =>
       /\ \A a \in Addr : heap[a] = NoString
       /\ \A k \in Dues : owed[k] = 0

\* Every object created has been destroyed, the last one by a destructor
\* that deleted its std::string: no std::string is live and no call is owed.
C15_Witness ==
  /\ pc = Idle
  /\ \A s \in Slot : life[s] = "dead"
  /\ life[Tmp] = "none"
  /\ moved = {}
  /\ last.op = "dtor"
  /\ Len(last.rel) = 1 /\ last.rel[1].k = "delete"
  /\ \A a \in Addr : heap[a] = NoString
  /\ \A k \in Dues : owed[k] = 0
  /\ faults = {}

\* C16: a call of AsNumber(), AsString(), AsPointer() or As<type>() on any
\* object, whether it returns or throws runtime_error, changes no object's
\* type or payload, deletes no std::string, calls no release function and
\* leaves every object as alive and as moved-from as it was; it throws
\* exactly when the type asked for is not the object's; and Type() of every
\* live object is one of the three types at all times.
C16_ReadsArePure ==
  /\ [](\A p \in Place : life[p] = "live" => Type(vals[p]) \in type_t)
  /\ [][\A d \in Slot :
          (pc = Idle /\ last'.op \in type_t /\ last'.dst = d) =>
            /\ vals' = vals /\ life' = life /\ moved' = moved
            /\ heap' = heap /\ owed' = owed /\ faults' = faults
            /\ last'.rel = <<>>
            /\ (last'.out = "runtime_error") = (last'.op # Type(vals[d]))]_vars

\* AsString() has just thrown runtime_error on an object that holds buf with
\* freeBuf: the object holds them still and freeBuf(buf) is still owed.
C16_Witness ==
  /\ last.op = string /\ last.out = "runtime_error"
  /\ vals[last.dst] = PointerVal("buf", "freeBuf")
  /\ life[last.dst] = "live"
  /\ owed[<<"freeBuf", "buf">>] = 1
  /\ faults = {}

\* C17: the assignment of an object to itself, d = d or d = std::move(d), is
\* a single step that returns normally and changes nothing, whatever d holds
\* (a pointer, for which a copy to another object throws, and a moved-from
\* object included): no object, no std::string and no call owed changes, no
\* temporary is made, and d is as moved-from as it was.
C17_SelfAssignIsNoOp ==
  [][\A d \in Slot :
       (/\ pc = Idle
        /\ last'.op \in {"copy_assign", "move_assign"}
        /\ last'.dst = d /\ last'.src = d) =>
         /\ last'.out = "ok"
         /\ last'.rel = <<>>
         /\ NothingChanged
         /\ moved' = moved
         /\ impossible' = impossible]_vars

\* p = std::move(p) has returned for a p that holds buf with freeBuf: p holds
\* them still, is not moved-from, and freeBuf(buf) is still owed.
C17_Witness ==
  /\ pc = Idle
  /\ last.op = "move_assign" /\ last.out = "ok" /\ last.dst = last.src
  /\ vals[last.dst] = PointerVal("buf", "freeBuf")
  /\ last.dst \notin moved
  /\ owed[<<"freeBuf", "buf">>] = 1
  /\ faults = {}

\* C18: a move (constructor or assignment) leaves its source alive with the
\* type it had and a disengaged payload (nullptr for a string, null pointer
\* and null release function for a pointer, the number kept for a number),
\* and a cleanup of a moved-from object would release nothing; an assignment
\* (copy or move) to a moved-from object releases nothing in its cleanup,
\* nothing in its take and nothing when its temporary is destroyed, and
\* leaves the object holding the payload assigned and no longer moved-from.
C18_MovedFromIsReusable ==
  /\ [](\A p \in moved :
          /\ life[p] # "none"
          /\ vals[p] = Disengaged(vals[p])
          /\ cleanup(vals[p], heap, owed).rel = <<>>)
  /\ [][\A d \in Slot, s \in Place :
          /\ (MoveCtorStep(d, s) \/ TakeStep(d, s)) =>
               /\ vals'[s] = Disengaged(vals[s])
               /\ Type(vals'[s]) = Type(vals[s])
               /\ life'[s] = "live"
               /\ s \in moved'
          /\ (CleanupStep(d, s) /\ d \in moved) =>
               /\ last'.rel = <<>>
               /\ heap' = heap /\ owed' = owed /\ faults' = faults
               /\ vals'[s] = vals[s]
          /\ (TakeStep(d, s) /\ d \in moved) =>
               /\ last.rel = <<>> /\ last'.rel = <<>>
               /\ heap' = heap /\ owed' = owed /\ faults' = faults
               /\ vals'[d] = vals[s]
               /\ d \notin moved'
          /\ (pc.at = "tmp_dtor" /\ pc' = Idle /\ pc.dst = d) =>
               /\ last'.rel = last.rel
               /\ heap' = heap /\ owed' = owed /\ faults' = faults
               /\ vals'[d] = vals[d]]_vars

\* A copy assignment to an object whose std::string was moved to another
\* object is between its cleanup and its take: nothing was released, the
\* other object still holds the string moved to it, and the temporary holds
\* the copy to be taken.
C18_Witness ==
  /\ pc.at = "take" /\ pc.src = Tmp
  /\ pc.dst \in moved
  /\ last.op = "copy_assign" /\ last.rel = <<>>
  /\ vals[pc.dst] = NumberVal(0)
  /\ vals[Tmp].type = string /\ vals[Tmp].str # NullStr
  /\ heap[vals[Tmp].str].st = "live"
  /\ vals[last.src].type = string /\ vals[last.src].str # NullStr
  /\ heap[vals[last.src].str].st = "live"
  /\ last.src \notin moved
====
